---- MODULE Spec2Model ----
(***************************************************************************)
(* Model of src/app.py: the Enhanced Criminal Cases Dashboard.             *)
(*                                                                         *)
(* The module-level DataFrame df is produced once by load_data() from the  *)
(* file cases.csv; two Dash callbacks, update_officer_dropdown and         *)
(* update_dashboard, read it whenever a filter dropdown changes.           *)
(*                                                                         *)
(* Representation of values                                                *)
(*   - A Python str is the sequence of its pieces.  A run of whitespace is *)
(*     the piece " ", a Statute code is split into single characters, any  *)
(*     other text into words, so 'SMITH JOHN' is <<"SMITH", " ", "JOHN">>  *)
(*     and '790.07' is <<"7","9","0",".","0","7">>.                        *)
(*   - A number read from the file is the one-piece text of its digits.    *)
(*   - NaN (a missing cell) and None (a cleared dropdown) are one-piece    *)
(*     sequences that no str equals.                                       *)
(*   - A DataFrame is [columns |-> set of names, rows |-> sequence of      *)
(*     [index |-> row label, cells |-> [columns -> value]]].               *)
(***************************************************************************)
EXTENDS Integers, Sequences, FiniteSets, TLC

VARIABLES
    csv,              \* the file cases.csv on disk
    phase,            \* "start", "loaded" (df assigned), "serving" (page open)
    df,               \* the module-level DataFrame
    sel,              \* the 'value' of each filter dropdown
    officer_options,  \* the 'options' of the officer dropdown
    out,              \* what update_dashboard last returned
    last_change,      \* history: what the last dropdown change did to its
                      \* field: "set" (to a value), "relax" (back to 'all')
    tie_order         \* the order in which the installed sort leaves equal keys

vars == <<csv, phase, df, sel, officer_options, out, last_change, tie_order>>

----------------------------------------------------------------------------
(* Bounds of the model *)

\* longest cases.csv built from the row templates
MaxRows == 2

----------------------------------------------------------------------------
(* Values *)

NaN == <<"<NaN>">>
NaT == <<"<NaT>">>
None == <<"<None>">>
ALL == <<"all">>
\* Python's True and False as cell values
True == <<"True">>
False == <<"False">>
bool(b) == IF b THEN True ELSE False

YES == <<"yes">>
NO == <<"no">>
Unknown == <<"Unknown">>
EmptyStr == <<>>

\* 'a b c' from <<"a","b","c">>
RECURSIVE Words(_)
Words(ws) ==
    IF Len(ws) <= 1 THEN ws
    ELSE <<Head(ws), " ">> \o Words(Tail(ws))

\* the pieces that are one character long
Chars == {"7", "9", "0", ".", "2", "3", "x", "1", "4", "8", "6", "5", " "}

\* str.strip()
RECURSIVE lstrip(_)
lstrip(s) ==
    IF s # <<>> /\ Head(s) = " " THEN lstrip(Tail(s)) ELSE s

RECURSIVE rstrip(_)
rstrip(s) ==
    IF s # <<>> /\ s[Len(s)] = " " THEN rstrip(SubSeq(s, 1, Len(s) - 1)) ELSE s

strip(s) == rstrip(lstrip(s))

\* Series.astype(str): a missing cell becomes the text 'nan'
astype_str(v) == IF v = NaN THEN <<"nan">> ELSE v

\* Series.fillna(value)
fillna(v, value) == IF v = NaN THEN value ELSE v

\* eq with '!=' written for '=='
eq_ne(cell, v) == cell # v

\* pandas elementwise ==: a missing cell equals nothing, and no cell equals None
eq(cell, v) == cell # NaN /\ v # None /\ cell = v

\* re.search of a pattern in which only '.' is special ('.' matches any one
\* character), as Series.str.contains does with its default regex=True
re_match_at(s, pat, i) ==
    \A j \in 1..Len(pat) :
        IF pat[j] = "." THEN s[i + j - 1] \in Chars ELSE s[i + j - 1] = pat[j]

str_contains(s, pat, na) ==
    IF s = NaN THEN na
    ELSE \E i \in 1..(Len(s) - Len(pat) + 1) : re_match_at(s, pat, i)

Pattern_790_07 == <<"7", "9", "0", ".", "0", "7">>

----------------------------------------------------------------------------
(* DataFrames *)

Range(s) == {s[i] : i \in DOMAIN s}

RECURSIVE SumSeq(_)
SumSeq(s) == IF s = <<>> THEN 0 ELSE Head(s) + SumSeq(Tail(s))

\* df[name] = values: one value per row
assign(frame, name, values) ==
    [columns |-> frame.columns \cup {name},
     rows |-> [i \in DOMAIN frame.rows |->
                 [index |-> frame.rows[i].index,
                  cells |-> [c \in frame.columns \cup {name} |->
                               IF c = name THEN values[i]
                               ELSE frame.rows[i].cells[c]]]]]

\* df[mask]: boolean indexing keeps the rows whose mask is true, in order,
\* with their labels
boolean_index(frame, mask) ==
    LET kept == SelectSeq([i \in DOMAIN frame.rows |-> i], LAMBDA i : mask[i])
    IN  [columns |-> frame.columns,
         rows |-> [k \in DOMAIN kept |-> frame.rows[kept[k]]]]

\* df[name] == value, elementwise
mask_eq(frame, name, value) ==
    [i \in DOMAIN frame.rows |-> eq(frame.rows[i].cells[name], value)]

\* df.head(n)
head(s, n) == SubSeq(s, 1, IF Len(s) < n THEN Len(s) ELSE n)

\* Series.unique(): distinct values in order of first occurrence
unique(s) ==
    LET firsts == SelectSeq([i \in DOMAIN s |-> i],
                            LAMBDA i : \A j \in 1..(i - 1) : s[j] # s[i])
    IN  [k \in DOMAIN firsts |-> s[firsts[k]]]

\* df[name] as a sequence of values
column(frame, name) == [i \in DOMAIN frame.rows |-> frame.rows[i].cells[name]]

\* Series.dropna()
dropna(s) == SelectSeq(s, LAMBDA v : v # NaN)

----------------------------------------------------------------------------
(* create_sample_data *)

Timestamp(v) == <<"Timestamp">> \o v

\* groupby('Lead_Officer')['CaseNumber'].transform('count'): per row, the
\* number of rows of the same officer whose CaseNumber is not missing
officer_case_count(frame) ==
    [r \in DOMAIN frame.rows |->
        IF frame.rows[r].cells["Lead_Officer"] = NaN THEN NaN
        ELSE Cardinality({i \in DOMAIN frame.rows :
                /\ frame.rows[i].cells["Lead_Officer"] = frame.rows[r].cells["Lead_Officer"]
                /\ frame.rows[i].cells["CaseNumber"] # NaN})]

\* df['Statute'].str.contains('790.07', na=False)
is_790_07(frame) ==
    [r \in DOMAIN frame.rows |->
        bool(str_contains(frame.rows[r].cells["Statute"], Pattern_790_07, FALSE))]

SampleColumns ==
    {"CaseNumber", "ChargeOffenseDescription", "Statute_Description", "Statute",
     "Statute_CaseType", "Gender", "Race_Tier_1", "FileDate", "Age_At_Offense",
     "Lead_Agency", "Lead_Officer", "City_Clean", "Arrest_vs_NonArrest",
     "YearMonth", "OffenseWeekday"}

sample_data ==
    [CaseNumber |-> <<<<"SAMPLE001">>, <<"SAMPLE002">>, <<"SAMPLE003">>,
                      <<"SAMPLE004">>, <<"SAMPLE005">>>>,
     ChargeOffenseDescription |->
        <<Words(<<"POSSESSION", "OF", "FIREARM", "BY", "CONVICTED", "FELON">>),
          Words(<<"BATTERY", "ON", "LAW", "ENFORCEMENT", "OFFICER">>),
          Words(<<"DRIVING", "UNDER", "THE", "INFLUENCE">>),
          Words(<<"POSSESSION", "OF", "CONTROLLED", "SUBSTANCE">>),
          Words(<<"THEFT", "OF", "MOTOR", "VEHICLE">>)>>,
     Statute_Description |->
        <<Words(<<"Firearm", "Violations">>), <<"Battery">>, <<"DUI">>,
          Words(<<"Drug", "Possession">>), <<"Theft">>>>,
     Statute |-> <<<<"7", "9", "0", ".", "2", "3">>,
                   <<"7", "8", "4", ".", "0", "7">>,
                   <<"3", "1", "6", ".", "1", "9", "3">>,
                   <<"8", "9", "3", ".", "1", "3">>,
                   <<"8", "1", "2", ".", "0", "1", "4">>>>,
     Statute_CaseType |-> <<<<"Felony">>, <<"Misdemeanor">>, <<"Misdemeanor">>,
                            <<"Felony">>, <<"Felony">>>>,
     Gender |-> <<<<"M">>, <<"F">>, <<"M">>, <<"F">>, <<"M">>>>,
     Race_Tier_1 |-> <<<<"B">>, <<"W">>, <<"H">>, <<"B">>, <<"W">>>>,
     FileDate |-> <<Timestamp(<<"2024-01-01">>), Timestamp(<<"2024-01-02">>),
                    Timestamp(<<"2024-01-03">>), Timestamp(<<"2024-01-04">>),
                    Timestamp(<<"2024-01-05">>)>>,
     Age_At_Offense |-> <<<<"25">>, <<"30">>, <<"35">>, <<"28">>, <<"42">>>>,
     Lead_Agency |-> <<Words(<<"ORLANDO", "POLICE", "DEPARTMENT">>),
                       Words(<<"ORANGE", "COUNTY", "SHERIFF">>),
                       Words(<<"ORLANDO", "POLICE", "DEPARTMENT">>),
                       Words(<<"ORANGE", "COUNTY", "SHERIFF">>),
                       Words(<<"OCOEE", "POLICE", "DEPARTMENT">>)>>,
     Lead_Officer |-> <<Words(<<"SMITH", "JOHN">>), Words(<<"JONES", "MARY">>),
                        Words(<<"BROWN", "DAVID">>), Words(<<"DAVIS", "SUSAN">>),
                        Words(<<"WILSON", "MIKE">>)>>,
     City_Clean |-> <<<<"Orlando">>, <<"Orlando">>, <<"Tampa">>, <<"Orlando">>,
                      <<"Ocoee">>>>,
     Arrest_vs_NonArrest |-> <<<<"Arrest">>, <<"Non-Arrest">>, <<"Arrest">>,
                               <<"Arrest">>, <<"Non-Arrest">>>>,
     YearMonth |-> <<<<"2024-01">>, <<"2024-01">>, <<"2024-01">>, <<"2024-01">>,
                     <<"2024-01">>>>,
     OffenseWeekday |-> <<<<"Monday">>, <<"Tuesday">>, <<"Wednesday">>,
                          <<"Thursday">>, <<"Friday">>>>]

\* pd.DataFrame(data): one row per position, labelled 0..n-1
DataFrame(columns, data, n) ==
    [columns |-> columns,
     rows |-> [i \in 1..n |->
                 [index |-> i - 1, cells |-> [c \in columns |-> data[c][i]]]]]

create_sample_data ==
    LET d0 == DataFrame(SampleColumns, sample_data, 5)
        d1 == assign(d0, "Officer_Case_Count", officer_case_count(d0))
    IN  assign(d1, "Is_790_07", is_790_07(d1))

----------------------------------------------------------------------------
(* load_data *)

\* df.columns.str.replace('\\ufeff', ''): the byte-order mark is removed from
\* the one header that read_csv can leave it on
str_replace_bom(name) == IF name = "\\ufeffCaseNumber" THEN "CaseNumber" ELSE name

\* df.columns = df.columns.str.replace(...)
rename_columns(frame) ==
    [columns |-> {str_replace_bom(c) : c \in frame.columns},
     rows |-> [i \in DOMAIN frame.rows |->
                 [index |-> frame.rows[i].index,
                  cells |-> [c \in {str_replace_bom(k) : k \in frame.columns} |->
                               frame.rows[i].cells[
                                   CHOOSE k \in frame.columns :
                                       str_replace_bom(k) = c]]]]]

\* the texts pd.to_datetime parses
DateTexts == {<<"2024-01-05">>, <<"2024-02-11">>}

\* pd.to_datetime(df[name]) raises when one cell does not parse
to_datetime_raises(frame, name) ==
    \E i \in DOMAIN frame.rows :
        frame.rows[i].cells[name] \notin DateTexts \cup {NaN}

to_datetime(v) == IF v = NaN THEN NaT ELSE Timestamp(v)

\* lines 50-62: a date column is converted when it exists and parses
convert_date(frame, name) ==
    IF name \in frame.columns /\ ~to_datetime_raises(frame, name)
    THEN assign(frame, name,
                [i \in DOMAIN frame.rows |-> to_datetime(frame.rows[i].cells[name])])
    ELSE frame

text_columns ==
    <<"Gender", "Race_Tier_1", "Lead_Agency", "ChargeOffenseDescription",
      "Lead_Officer", "Statute_Description", "Statute">>

\* lines 66-72: astype(str).str.strip() on each text column that exists
RECURSIVE clean_text(_, _)
clean_text(frame, cols) ==
    IF cols = <<>> THEN frame
    ELSE LET col == Head(cols)
             f == IF col \in frame.columns
                  THEN assign(frame, col,
                           [i \in DOMAIN frame.rows |->
                               strip(astype_str(frame.rows[i].cells[col]))])
                  ELSE frame
         IN  clean_text(f, Tail(cols))

\* lines 75-80: fillna('Unknown') on a column that exists
fill_unknown(frame, name) ==
    IF name \in frame.columns
    THEN assign(frame, name,
                [i \in DOMAIN frame.rows |-> fillna(frame.rows[i].cells[name], Unknown)])
    ELSE frame

\* pd.read_csv('cases.csv'): the rows of the file, labelled 0..n-1
read_csv(file) ==
    [columns |-> file.columns,
     rows |-> [i \in DOMAIN file.rows |-> [index |-> i - 1, cells |-> file.rows[i]]]]

\* lines 82-84: the groupby selects 'CaseNumber' and raises KeyError without it
officer_count_raises(frame) ==
    "Lead_Officer" \in frame.columns /\ "CaseNumber" \notin frame.columns

add_officer_case_count(frame) ==
    IF "Lead_Officer" \in frame.columns
    THEN assign(frame, "Officer_Case_Count", officer_case_count(frame))
    ELSE frame

add_is_790_07(frame) ==
    IF "Statute" \in frame.columns
    THEN assign(frame, "Is_790_07", is_790_07(frame))
    ELSE frame

load_data(file) ==
    IF file.kind = "missing" THEN create_sample_data
    ELSE IF file.kind = "malformed" THEN create_sample_data
    ELSE IF Len(file.rows) = 0 THEN create_sample_data
    ELSE LET d0 == read_csv(file)
             d1 == rename_columns(d0)
             d2 == convert_date(d1, "FileDate")
             d3 == convert_date(d2, "OffenseDate")
             d4 == clean_text(d3, text_columns)
             d5 == fill_unknown(d4, "City_Clean")
             d6 == fill_unknown(d5, "Lead_Agency")
             d7 == fill_unknown(d6, "Lead_Officer")
         IN  IF officer_count_raises(d7) THEN create_sample_data
             ELSE add_is_790_07(add_officer_case_count(d7))

----------------------------------------------------------------------------
(* The row limits of update_dashboard's views *)

TopOfficers == 15
TopStatutes == 10
TopAgencies == 10
SecondaryRows == 50
TableRows == 100

----------------------------------------------------------------------------
(* Sorting and grouping as pandas does them *)

\* the case number 'CASE-1kk', for kk from 01
case_number(k) == <<"CASE", "-", ToString(100 + k)>>

\* one case more than the secondary-charges table shows
ManyCases == SecondaryRows + 1

\* Python's order on the texts that the callbacks sort (group keys)
TextOrder ==
    <<<<"2024-01">>, <<"2024-02">>, <<"2024-03">>, <<"B">>, <<"C-1">>, <<"C-2">>>>
    \o [k \in 1..ManyCases |-> case_number(k)]
    \o <<<<"F">>, <<"H">>, <<"M">>, <<"SAMPLE001">>, <<"SAMPLE002">>, <<"SAMPLE003">>,
         <<"SAMPLE004">>, <<"SAMPLE005">>, <<"W">>, <<"nan">>>>

rank(v) == CHOOSE i \in DOMAIN TextOrder : TextOrder[i] = v

\* a stable sort of s by the integer keys key[i], ascending
sort_values(s, key) ==
    LET n == Len(s)
        keys == key \o <<>>
        pos == [i \in 1..n |->
                  1 + Cardinality({j \in 1..n :
                          \/ keys[j] < keys[i]
                          \/ keys[j] = keys[i] /\ j < i})] \o <<>>
        argsort == [p \in 1..n |-> CHOOSE i \in 1..n : pos[i] = p] \o <<>>
    IN  [p \in 1..n |-> s[argsort[p]]]

count_of(s, v) == Cardinality({i \in DOMAIN s : s[i] = v})

\* s[::-1]
reverse(s) == [i \in DOMAIN s |-> s[Len(s) + 1 - i]]

\* Series.value_counts() ends in sort_values(ascending=False) with the default
\* kind='quicksort', which is not a stable sort: the order of equal counts is
\* whatever the installed numpy sort leaves.  Two orders stand for it: values
\* in order of first occurrence, and in the reverse of it
TieOrders == {"first_seen", "last_seen"}

\* Series.value_counts(): missing cells are not counted; sorted by count,
\* largest first, equal counts in the order the sort leaves them
value_counts(s) ==
    LET present == dropna(s)
        u == unique(present)
        seen == IF tie_order = "first_seen" THEN u ELSE reverse(u)
        counts == [i \in DOMAIN seen |->
                     [value |-> seen[i], count |-> count_of(present, seen[i])]]
    IN  sort_values(counts, [i \in DOMAIN counts |-> 0 - counts[i].count])

\* groupby_size that leaves the keys in order of first occurrence
groupby_size_unsorted(frame, name) ==
    LET present == dropna(column(frame, name))
        u == unique(present)
    IN  [i \in DOMAIN u |-> [key |-> u[i], count |-> count_of(present, u[i])]]

\* groupby(name).size().reset_index(name='count'): one row per key that
\* occurs, missing keys dropped, sorted by key
groupby_size(frame, name) ==
    LET present == dropna(column(frame, name))
        u == unique(present)
        counts == [i \in DOMAIN u |-> [key |-> u[i], count |-> count_of(present, u[i])]]
    IN  sort_values(counts, [i \in DOMAIN counts |-> rank(counts[i].key)])

\* groupby([a, b]).size().reset_index(name='count')
groupby2_size(frame, a, b) ==
    LET pairs == SelectSeq([i \in DOMAIN frame.rows |->
                               <<frame.rows[i].cells[a], frame.rows[i].cells[b]>>],
                           LAMBDA p : p[1] # NaN /\ p[2] # NaN)
        u == unique(pairs)
        counts == [i \in DOMAIN u |->
                     [a |-> u[i][1], b |-> u[i][2], count |-> count_of(pairs, u[i])]]
    IN  sort_values(counts, [i \in DOMAIN counts |->
                rank(counts[i].a) * (Len(TextOrder) + 1) + rank(counts[i].b)])

\* sep.join(parts)
RECURSIVE join(_, _)
join(sep, parts) ==
    IF parts = <<>> THEN <<>>
    ELSE IF Len(parts) = 1 THEN parts[1]
    ELSE parts[1] \o sep \o join(sep, Tail(parts))

\* the 'first' aggregation: the first value of the group that is not missing
first(s) == IF dropna(s) = <<>> THEN NaN ELSE Head(dropna(s))

----------------------------------------------------------------------------
(* safe_get_unique and update_officer_dropdown *)

\* [val for val in series.dropna().unique() if val and str(val) != 'nan']
option_values(s) ==
    SelectSeq(unique(dropna(s)), LAMBDA val : val # EmptyStr /\ val # <<"nan">>)

safe_get_unique(frame, column_name) ==
    IF column_name \in frame.columns
    THEN option_values(column(frame, column_name))
    ELSE <<>>

\* update_officer_dropdown that offers the officers of every agency
update_officer_dropdown_all_agencies(frame, selected_agency) ==
    LET officers == IF "Lead_Officer" \in frame.columns
                    THEN option_values(column(frame, "Lead_Officer"))
                    ELSE <<>>
    IN  <<[label |-> Words(<<"All", "Officers">>), value |-> ALL]>> \o
        [i \in DOMAIN officers |-> [label |-> officers[i], value |-> officers[i]]]

AllOfficersOption == [label |-> Words(<<"All", "Officers">>), value |-> ALL]

update_officer_dropdown(frame, selected_agency) ==
    LET officers ==
            IF selected_agency = ALL \/ selected_agency = None
                                     \/ selected_agency = EmptyStr
            THEN safe_get_unique(frame, "Lead_Officer")
            ELSE IF "Lead_Agency" \in frame.columns /\ "Lead_Officer" \in frame.columns
                 THEN LET agency_df == boolean_index(frame,
                              mask_eq(frame, "Lead_Agency", selected_agency))
                      IN  option_values(column(agency_df, "Lead_Officer"))
                 ELSE <<>>
    IN  <<AllOfficersOption>> \o
        [i \in DOMAIN officers |-> [label |-> officers[i], value |-> officers[i]]]

----------------------------------------------------------------------------
(* update_dashboard *)

\* a plotly figure: its constructor, its title and the data it draws
figure(kind, title, data) == [kind |-> kind, title |-> title, data |-> data]

\* filter_active without the test for the 'all' sentinel
filter_active_no_sentinel(frame, selected, name) == name \in frame.columns

\* filter_active without the test that the column exists
filter_active_no_column_check(frame, selected, name) == selected # ALL

\* the condition of one filter's if statement
filter_active(frame, selected, name) == selected # ALL /\ name \in frame.columns

\* filtered_df = filtered_df[filtered_df[name] == value]; selecting a column
\* the frame does not have raises KeyError
apply_filter(prev, active, name, value) ==
    IF prev.raised \/ ~active THEN prev
    ELSE IF name \notin prev.frame.columns
         THEN [raised |-> TRUE, frame |-> prev.frame]
         ELSE [raised |-> FALSE,
               frame |-> boolean_index(prev.frame, mask_eq(prev.frame, name, value))]

\* df.copy()
copy(frame) == frame

\* lines 447-473
filter_data(frame, s) ==
    LET f0 == [raised |-> FALSE, frame |-> copy(frame)]
        f1 == apply_filter(f0, filter_active(frame, s.agency, "Lead_Agency"),
                           "Lead_Agency", s.agency)
        f2 == apply_filter(f1, filter_active(frame, s.officer, "Lead_Officer"),
                           "Lead_Officer", s.officer)
        f3 == apply_filter(f2, filter_active(frame, s.statute, "Statute_Description"),
                           "Statute_Description", s.statute)
        f4 == apply_filter(f3, filter_active(frame, s.case_type, "Statute_CaseType"),
                           "Statute_CaseType", s.case_type)
        f5 == apply_filter(f4, filter_active(frame, s.gender, "Gender"),
                           "Gender", s.gender)
        f6 == apply_filter(f5, filter_active(frame, s.race, "Race_Tier_1"),
                           "Race_Tier_1", s.race)
        f7 == apply_filter(f6, filter_active(frame, s.arrest, "Arrest_vs_NonArrest"),
                           "Arrest_vs_NonArrest", s.arrest)
    IN  IF s.f790 = YES /\ "Is_790_07" \in frame.columns
        THEN apply_filter(f7, TRUE, "Is_790_07", True)
        ELSE IF s.f790 = NO /\ "Is_790_07" \in frame.columns
             THEN apply_filter(f7, TRUE, "Is_790_07", False)
             ELSE f7

\* officer_chart cut at the statute view's length
officer_chart_top10(filtered_df) ==
    IF "Lead_Officer" \in filtered_df.columns /\ Len(filtered_df.rows) > 0
    THEN LET officer_counts ==
                 head(value_counts(column(filtered_df, "Lead_Officer")), TopStatutes)
         IN  IF Len(officer_counts) > 0
             THEN figure("bar", "Top 15 Officers by Case Volume", officer_counts)
             ELSE figure("bar", "Officer Performance (No data)", <<>>)
    ELSE figure("bar", "Officer Performance (No data available)", <<>>)

\* lines 476-495
officer_chart(filtered_df) ==
    IF "Lead_Officer" \in filtered_df.columns /\ Len(filtered_df.rows) > 0
    THEN LET officer_counts ==
                 head(value_counts(column(filtered_df, "Lead_Officer")), TopOfficers)
         IN  IF Len(officer_counts) > 0
             THEN figure("bar", "Top 15 Officers by Case Volume", officer_counts)
             ELSE figure("bar", "Officer Performance (No data)", <<>>)
    ELSE figure("bar", "Officer Performance (No data available)", <<>>)

\* lines 498-512
statute_chart(filtered_df) ==
    IF "Statute_Description" \in filtered_df.columns /\ Len(filtered_df.rows) > 0
    THEN LET statute_counts ==
                 head(value_counts(column(filtered_df, "Statute_Description")),
                      TopStatutes)
         IN  IF Len(statute_counts) > 0
             THEN figure("pie", "Statute Distribution", statute_counts)
             ELSE figure("pie", "Statute Distribution (No data)", <<>>)
    ELSE figure("pie", "Statute Distribution (No data available)", <<>>)

\* lines 515-533
demographics_chart(filtered_df) ==
    IF /\ "Race_Tier_1" \in filtered_df.columns
       /\ "Gender" \in filtered_df.columns
       /\ Len(filtered_df.rows) > 0
    THEN LET demo_df == groupby2_size(filtered_df, "Race_Tier_1", "Gender")
         IN  IF Len(demo_df) > 0
             THEN figure("bar", "Demographics: Race and Gender", demo_df)
             ELSE figure("bar", "Demographics (No data)", <<>>)
    ELSE figure("bar", "Demographics (No data available)", <<>>)

\* filtered_df[filtered_df['Is_790_07'] == True]
rows_790(filtered_df) ==
    boolean_index(filtered_df, mask_eq(filtered_df, "Is_790_07", True))

\* lines 536-553
analysis_chart(filtered_df) ==
    IF /\ "Is_790_07" \in filtered_df.columns
       /\ "Age_At_Offense" \in filtered_df.columns
       /\ Len(filtered_df.rows) > 0
    THEN LET df_790 == rows_790(filtered_df)
         IN  IF Len(df_790.rows) > 0
             THEN figure("histogram", "Age Distribution for 790.07 Cases",
                         column(df_790, "Age_At_Offense"))
             ELSE figure("histogram", "790.07 Analysis (No 790.07 cases found)", <<>>)
    ELSE figure("histogram", "790.07 Analysis (No data available)", <<>>)

\* lines 556-571
case_type_chart(filtered_df) ==
    IF "Statute_CaseType" \in filtered_df.columns /\ Len(filtered_df.rows) > 0
    THEN LET case_type_counts == value_counts(column(filtered_df, "Statute_CaseType"))
         IN  IF Len(case_type_counts) > 0
             THEN figure("pie", "Case Type Distribution", case_type_counts)
             ELSE figure("pie", "Case Types (No data)", <<>>)
    ELSE figure("pie", "Case Types (No data available)", <<>>)

\* lines 574-595
timeline_chart(filtered_df) ==
    IF "YearMonth" \in filtered_df.columns /\ Len(filtered_df.rows) > 0
    THEN LET timeline_data == groupby_size(filtered_df, "YearMonth")
         IN  IF Len(timeline_data) > 0
             THEN figure("line", "Cases Over Time", timeline_data)
             ELSE figure("line", "Timeline (No data)", <<>>)
    ELSE figure("line", "Timeline (No data available)", <<>>)

\* lines 598-616
agency_chart(filtered_df) ==
    IF "Lead_Agency" \in filtered_df.columns /\ Len(filtered_df.rows) > 0
    THEN LET agency_counts ==
                 head(value_counts(column(filtered_df, "Lead_Agency")), TopAgencies)
         IN  IF Len(agency_counts) > 0
             THEN figure("bar", "Top 10 Agencies by Case Volume", agency_counts)
             ELSE figure("bar", "Agencies (No data)", <<>>)
    ELSE figure("bar", "Agencies (No data available)", <<>>)

SecondaryAggColumns ==
    {"CaseNumber", "ChargeOffenseDescription", "Statute_Description", "Lead_Officer",
     "Age_At_Offense", "Gender", "Race_Tier_1"}

secondary_columns_list ==
    <<[name |-> "Case Number", id |-> "CaseNumber"],
      [name |-> "Officer", id |-> "Lead_Officer"],
      [name |-> "All Charges", id |-> "ChargeOffenseDescription"],
      [name |-> "All Statutes", id |-> "Statute_Description"],
      [name |-> "Age", id |-> "Age_At_Offense"],
      [name |-> "Gender", id |-> "Gender"],
      [name |-> "Race", id |-> "Race_Tier_1"]>>

CommaSpace == <<",", " ">>

\* case_groups that joins every description of the case, repeats included
case_groups_no_unique(df_790) ==
    LET cases == unique(dropna(column(df_790, "CaseNumber")))
        keys == sort_values(cases, [i \in DOMAIN cases |-> rank(cases[i])])
        group(k) == boolean_index(df_790, mask_eq(df_790, "CaseNumber", k))
    IN  [i \in DOMAIN keys |->
           LET g == group(keys[i])
           IN  [CaseNumber |-> keys[i],
                ChargeOffenseDescription |->
                    join(CommaSpace, column(g, "ChargeOffenseDescription")),
                Statute_Description |->
                    join(CommaSpace, column(g, "Statute_Description")),
                Lead_Officer |-> first(column(g, "Lead_Officer")),
                Age_At_Offense |-> first(column(g, "Age_At_Offense")),
                Gender |-> first(column(g, "Gender")),
                Race_Tier_1 |-> first(column(g, "Race_Tier_1"))]]

\* df_790.groupby('CaseNumber').agg({...}).reset_index(): one row per case
\* number, sorted by case number, rows without a case number dropped
case_groups(df_790) ==
    LET cases == unique(dropna(column(df_790, "CaseNumber")))
        keys == sort_values(cases, [i \in DOMAIN cases |-> rank(cases[i])])
        group(k) == boolean_index(df_790, mask_eq(df_790, "CaseNumber", k))
    IN  [i \in DOMAIN keys |->
           LET g == group(keys[i])
           IN  [CaseNumber |-> keys[i],
                ChargeOffenseDescription |->
                    join(CommaSpace, unique(column(g, "ChargeOffenseDescription"))),
                Statute_Description |->
                    join(CommaSpace, unique(column(g, "Statute_Description"))),
                Lead_Officer |-> first(column(g, "Lead_Officer")),
                Age_At_Offense |-> first(column(g, "Age_At_Offense")),
                Gender |-> first(column(g, "Gender")),
                Race_Tier_1 |-> first(column(g, "Race_Tier_1"))]]

\* lines 619-647; the except clause leaves both lists empty when the
\* aggregation names a column the frame does not have
secondary_table(filtered_df) ==
    IF "Is_790_07" \in filtered_df.columns /\ Len(filtered_df.rows) > 0
    THEN LET df_790 == rows_790(filtered_df)
         IN  IF Len(df_790.rows) > 0 /\ SecondaryAggColumns \subseteq filtered_df.columns
             THEN [data |-> head(case_groups(df_790), SecondaryRows),
                   columns |-> secondary_columns_list]
             ELSE [data |-> <<>>, columns |-> <<>>]
    ELSE [data |-> <<>>, columns |-> <<>>]

TableColumns ==
    {"CaseNumber", "Lead_Officer", "Lead_Agency", "Statute", "Statute_Description",
     "Statute_CaseType", "Gender", "Race_Tier_1", "Age_At_Offense", "FileDate",
     "City_Clean"}

NoTableData == <<[Message |-> "No data available for table"]>>

\* cases_table without the test that records are left
cases_table_unguarded(filtered_df) ==
    LET available_columns == TableColumns \cap filtered_df.columns
    IN  IF available_columns # {}
        THEN LET shown == head(filtered_df.rows, TableRows)
             IN  [i \in DOMAIN shown |->
                    [c \in available_columns |-> shown[i].cells[c]]]
        ELSE NoTableData

\* lines 650-659
cases_table(filtered_df) ==
    LET available_columns == TableColumns \cap filtered_df.columns
    IN  IF available_columns # {} /\ Len(filtered_df.rows) > 0
        THEN LET shown == head(filtered_df.rows, TableRows)
             IN  [i \in DOMAIN shown |->
                    [c \in available_columns |-> shown[i].cells[c]]]
        ELSE NoTableData

\* the value update_dashboard returns, with the local filtered_df; raised
\* tells that the call ended in an exception and returned nothing
update_dashboard(frame, s) ==
    LET filtered == filter_data(frame, s)
        filtered_df == filtered.frame
        secondary == secondary_table(filtered_df)
    IN  IF filtered.raised
        THEN [raised |-> TRUE]
        ELSE [raised |-> FALSE,
              filtered_df |-> filtered_df,
              officer_fig |-> officer_chart(filtered_df),
              statute_fig |-> statute_chart(filtered_df),
              demographics_fig |-> demographics_chart(filtered_df),
              analysis_fig |-> analysis_chart(filtered_df),
              case_type_fig |-> case_type_chart(filtered_df),
              timeline_fig |-> timeline_chart(filtered_df),
              agency_fig |-> agency_chart(filtered_df),
              secondary_data |-> secondary.data,
              secondary_columns |-> secondary.columns,
              table_data |-> cases_table(filtered_df)]

\* update_dashboard that filters the module-level df itself
df_after_update_dashboard_inplace(frame, s) == filter_data(frame, s).frame

\* update_officer_dropdown that narrows the module-level df to the agency
df_after_update_officer_dropdown_inplace(frame, selected_agency) ==
    IF selected_agency \in {ALL, None, EmptyStr} \/ "Lead_Agency" \notin frame.columns
    THEN frame
    ELSE boolean_index(frame, mask_eq(frame, "Lead_Agency", selected_agency))

\* update_dashboard binds the local name filtered_df to a copy of df (line 447)
\* and only rebinds that name: the module-level df after the call
df_after_update_dashboard(frame, s) == frame

\* update_officer_dropdown only reads df (lines 410-414)
df_after_update_officer_dropdown(frame, selected_agency) == frame

----------------------------------------------------------------------------
(* The files cases.csv that load_data may find *)

CsvColumns ==
    {"CaseNumber", "ChargeOffenseDescription", "Statute_Description", "Statute",
     "Statute_CaseType", "Gender", "Race_Tier_1", "FileDate", "OffenseDate",
     "Age_At_Offense", "Lead_Agency", "Lead_Officer", "City_Clean",
     "Arrest_vs_NonArrest", "YearMonth"}

OPD == <<"OPD">>
OCSO == <<"OCSO">>
SmithJohn == Words(<<"SMITH", "JOHN">>)
JonesMary == Words(<<"JONES", "MARY">>)

T1 ==
    [CaseNumber |-> <<"C-1">>,
     ChargeOffenseDescription |-> Words(<<"FIREARM", "DISPLAY">>),
     Statute_Description |-> <<"Firearm">>,
     Statute |-> <<"7", "9", "0", ".", "0", "7">>,
     Statute_CaseType |-> <<"Felony">>,
     Gender |-> <<"M">>,
     Race_Tier_1 |-> <<"B">>,
     FileDate |-> <<"2024-01-05">>,
     OffenseDate |-> <<"2024-01-05">>,
     Age_At_Offense |-> <<"25">>,
     Lead_Agency |-> OPD,
     Lead_Officer |-> SmithJohn,
     City_Clean |-> <<"Orlando">>,
     Arrest_vs_NonArrest |-> <<"Arrest">>,
     YearMonth |-> <<"2024-03">>]

T2 ==
    [CaseNumber |-> <<"C-2">>,
     ChargeOffenseDescription |-> <<"BATTERY">>,
     Statute_Description |-> <<"Battery">>,
     Statute |-> <<"7", "8", "4", ".", "0", "3">>,
     Statute_CaseType |-> <<"Misdemeanor">>,
     Gender |-> <<"F">>,
     Race_Tier_1 |-> <<"W">>,
     FileDate |-> NaN,
     OffenseDate |-> Words(<<"not", "known">>),
     Age_At_Offense |-> <<"30">>,
     Lead_Agency |-> OCSO,
     Lead_Officer |-> <<" ">> \o JonesMary,
     City_Clean |-> NaN,
     Arrest_vs_NonArrest |-> <<"Non-Arrest">>,
     YearMonth |-> <<"2024-01">>]

T3 ==
    [CaseNumber |-> <<"C-1">>,
     ChargeOffenseDescription |-> <<"BATTERY">>,
     Statute_Description |-> <<"Battery">>,
     Statute |-> <<" ", "7", "9", "0", "1", "0", "7">>,
     Statute_CaseType |-> NaN,
     Gender |-> <<"M">>,
     Race_Tier_1 |-> <<"W">>,
     FileDate |-> <<"2024-02-11">>,
     OffenseDate |-> NaN,
     Age_At_Offense |-> NaN,
     Lead_Agency |-> OPD \o <<" ">>,
     Lead_Officer |-> JonesMary,
     City_Clean |-> <<"Tampa">>,
     Arrest_vs_NonArrest |-> <<"Arrest">>,
     YearMonth |-> NaN]

\* a cycle of rows in which every template follows every template
RowCycle == <<T1, T3, T2, T2, T1, T1, T2, T3, T3>>

\* the n rows of the cycle from position o on
window(o, n) == [i \in 1..n |-> RowCycle[((o + i - 2) % Len(RowCycle)) + 1]]

\* the runs of at most n consecutive rows of the cycle
RowSeqs(n) == {window(o, k) : o \in 1..Len(RowCycle), k \in 0..n}

\* a file of many rows: every row its own officer, agency and statute
\* description, but for the last, which repeats the officer before it
ManyRows == TopOfficers + 2

many_row(i) ==
    LET k == IF i = ManyRows THEN i - 1 ELSE i
    IN  [T2 EXCEPT !.Lead_Officer = <<"OFFICER", " ", ToString(k)>>,
                   !.Lead_Agency = <<"AGENCY", " ", ToString(i)>>,
                   !.Statute_Description = <<"STATUTE", " ", ToString(i)>>]

\* a file of many flagged cases: every row its own case number, the highest
\* first, then two more rows of the lowest case number with another charge
case_row(i) ==
    IF i <= ManyCases
    THEN [T1 EXCEPT !.CaseNumber = case_number(ManyCases + 1 - i)]
    ELSE [T3 EXCEPT !.CaseNumber = case_number(1)]

csv_file(columns, rows) ==
    [kind |-> "ok", columns |-> columns,
     rows |-> [i \in DOMAIN rows |-> [c \in columns |-> rows[i][c]]]]

BaseRows == <<T1, T3, T2>>

\* the columns that a revision of the file may lack
DroppedColumns ==
    {"Lead_Agency", "Lead_Officer", "Statute_Description", "Statute_CaseType",
     "Gender", "Race_Tier_1", "Arrest_vs_NonArrest", "Statute", "CaseNumber",
     "YearMonth"}

\* the file whose first header carries the byte-order mark
bom_file ==
    LET columns == (CsvColumns \ {"CaseNumber"}) \cup {"\\ufeffCaseNumber"}
    IN  [kind |-> "ok", columns |-> columns,
         rows |-> [i \in DOMAIN BaseRows |->
                     [c \in columns |->
                        BaseRows[i][IF c = "\\ufeffCaseNumber" THEN "CaseNumber" ELSE c]]]]

CsvFiles ==
    {[kind |-> "missing", columns |-> {}, rows |-> <<>>],
     [kind |-> "malformed", columns |-> {}, rows |-> <<>>]}
    \cup {csv_file(CsvColumns, rows) : rows \in RowSeqs(MaxRows)}
    \cup {csv_file(CsvColumns \ {c}, BaseRows) : c \in DroppedColumns}
    \cup {csv_file(CsvColumns, [i \in 1..ManyRows |-> many_row(i)])}
    \cup {csv_file(CsvColumns, [i \in 1..(ManyCases + 2) |-> case_row(i)])}
    \cup {bom_file}

----------------------------------------------------------------------------
(* The dashboard: the dropdown values and the callbacks' outputs *)

\* app.layout: every dropdown starts at 'all'
InitialSelections ==
    [agency |-> ALL, officer |-> ALL, statute |-> ALL, case_type |-> ALL,
     gender |-> ALL, race |-> ALL, arrest |-> ALL, f790 |-> ALL]

\* the values a dropdown may be set to; None is the cleared dropdown
Choices ==
    [agency |-> {ALL, OPD, OCSO, None},
     officer |-> {ALL, SmithJohn},
     statute |-> {ALL, <<"Battery">>},
     case_type |-> {ALL, <<"Felony">>},
     gender |-> {ALL, <<"M">>},
     race |-> {ALL, <<"W">>},
     arrest |-> {ALL, <<"Arrest">>},
     f790 |-> {ALL, YES, NO}]

NoFrame == [columns |-> {}, rows |-> <<>>]
NoOutput == [raised |-> FALSE]

Init ==
    /\ csv \in CsvFiles
    /\ phase = "start"
    /\ df = NoFrame
    /\ sel = InitialSelections
    /\ officer_options = <<AllOfficersOption>>
    /\ out = NoOutput
    /\ last_change = "none"
    /\ tie_order \in TieOrders

\* line 156: df = load_data()
LoadData ==
    /\ phase = "start"
    /\ df' = load_data(csv)
    /\ phase' = "loaded"
    /\ UNCHANGED <<csv, sel, officer_options, out, last_change, tie_order>>

\* the page is opened: Dash calls both callbacks with the layout's values
PageLoad ==
    /\ phase = "loaded"
    /\ officer_options' = update_officer_dropdown(df, sel.agency)
    /\ out' = update_dashboard(df, sel)
    /\ df' = df_after_update_dashboard(
                 df_after_update_officer_dropdown(df, sel.agency), sel)
    /\ phase' = "serving"
    /\ UNCHANGED <<csv, sel, last_change, tie_order>>

kind_of_change(v) == IF v = ALL THEN "relax" ELSE "set"

\* the values the officer dropdown offers
offered == {officer_options[i].value : i \in DOMAIN officer_options}

\* a dropdown other than the agency's changes: update_dashboard runs; an
\* officer is picked among the options the officer dropdown shows
Change(field) ==
    /\ phase = "serving"
    /\ \E v \in Choices[field] \ {sel[field]} :
          /\ field = "officer" => v \in offered
          /\ sel' = [sel EXCEPT ![field] = v]
          /\ last_change' = kind_of_change(v)
          /\ out' = update_dashboard(df, sel')
          /\ df' = df_after_update_dashboard(df, sel')
    /\ UNCHANGED <<csv, phase, officer_options, tie_order>>

\* the agency dropdown changes: both callbacks run
AgencyChange ==
    /\ phase = "serving"
    /\ \E v \in Choices.agency \ {sel.agency} :
          /\ sel' = [sel EXCEPT !.agency = v]
          /\ last_change' = kind_of_change(v)
          /\ officer_options' = update_officer_dropdown(df, v)
          /\ out' = update_dashboard(df, sel')
          /\ df' = df_after_update_dashboard(
                       df_after_update_officer_dropdown(df, v), sel')
    /\ UNCHANGED <<csv, phase, tie_order>>

OfficerChange == Change("officer")
StatuteChange == Change("statute")
CaseTypeChange == Change("case_type")
GenderChange == Change("gender")
RaceChange == Change("race")
ArrestChange == Change("arrest")
F790Change == Change("f790")

Next ==
    \/ LoadData
    \/ PageLoad
    \/ AgencyChange
    \/ OfficerChange
    \/ StatuteChange
    \/ CaseTypeChange
    \/ GenderChange
    \/ RaceChange
    \/ ArrestChange
    \/ F790Change

Spec == Init /\ [][Next]_vars

----------------------------------------------------------------------------
(* Vocabulary of the properties *)

Serving == phase = "serving" /\ ~out.raised

\* the filter fields that select a text value, and the column each reads
TextFields == {"agency", "officer", "statute", "case_type", "gender", "race", "arrest"}

FieldColumn ==
    [agency |-> "Lead_Agency", officer |-> "Lead_Officer",
     statute |-> "Statute_Description", case_type |-> "Statute_CaseType",
     gender |-> "Gender", race |-> "Race_Tier_1", arrest |-> "Arrest_vs_NonArrest",
     f790 |-> "Is_790_07"]

AllFields == TextFields \cup {"f790"}

\* record r of dataset d matches selection s of one field; a field whose
\* column d lacks constrains nothing
MatchesField(d, r, s, f) ==
    \/ FieldColumn[f] \notin d.columns
    \/ IF f = "f790"
       THEN /\ s.f790 = YES => r.cells["Is_790_07"] = True
            /\ s.f790 = NO => r.cells["Is_790_07"] = False
       ELSE s[f] # ALL => r.cells[FieldColumn[f]] = s[f]

\* frame f holds exactly the records of d that match s on every field of
\* fields, each once, in the order of d
IsFilteredView(f, d, s, fields) ==
    /\ f.columns = d.columns
    /\ {f.rows[i].index : i \in DOMAIN f.rows} =
           {d.rows[j].index : j \in {k \in DOMAIN d.rows :
                \A fld \in fields : MatchesField(d, d.rows[k], s, fld)}}
    /\ \A i \in DOMAIN f.rows : \A j \in DOMAIN f.rows :
           i < j => f.rows[i].index < f.rows[j].index
    /\ \A i \in DOMAIN f.rows : \E j \in DOMAIN d.rows : f.rows[i] = d.rows[j]

\* C1: the filtered set of update_dashboard is exactly the records of the
\* loaded dataset that match every selection other than 'all' (equal field
\* value; flag true for 'yes', false for 'no'), in their original order and
\* each at most once
C1_FilteredIsConjunction ==
    Serving => IsFilteredView(out.filtered_df, df, sel, AllFields)

\* two selections are in force and keep at least two records but not all
C1_Witness ==
    /\ Serving
    /\ sel.agency # ALL
    /\ sel.gender # ALL
    /\ Len(out.filtered_df.rows) >= 2
    /\ Len(out.filtered_df.rows) < Len(df.rows)

\* C2: with every selection 'all' the filtered set is the full loaded
\* dataset: same records, same order, same count
C2_AllIsIdentity ==
    (Serving /\ sel = InitialSelections) => out.filtered_df = df

\* every dropdown is back at 'all' after a change, on a dataset of two
\* records or more
C2_Witness ==
    /\ Serving
    /\ sel = InitialSelections
    /\ last_change = "relax"
    /\ Len(out.filtered_df.rows) >= 2

\* C3: once a field has been set back to 'all', the filtered set is the
\* loaded dataset filtered by the selections still in force on the other
\* fields alone, whatever was selected before
C3_RelaxForgets ==
    (phase = "serving" /\ last_change = "relax")
    => /\ ~out.raised
       /\ IsFilteredView(out.filtered_df, load_data(csv), sel,
                         {f \in AllFields : sel[f] # ALL})

\* a field has just been set back to 'all' while another selection stays in
\* force and keeps some records but not all
C3_Witness ==
    /\ Serving
    /\ last_change = "relax"
    /\ sel.gender = ALL
    /\ sel.agency \notin {ALL, None}
    /\ Len(out.filtered_df.rows) >= 1
    /\ Len(out.filtered_df.rows) < Len(df.rows)

\* C4: under a selected agency other than 'all', every officer offered
\* besides the 'all' entry is Lead_Officer of a record of that agency
C4_OfficersOfAgency ==
    (phase = "serving" /\ sel.agency \notin {ALL, None})
    => /\ officer_options[1] = AllOfficersOption
       /\ \A i \in 2..Len(officer_options) :
             /\ {"Lead_Agency", "Lead_Officer"} \subseteq df.columns
             /\ \E j \in DOMAIN df.rows :
                   /\ df.rows[j].cells["Lead_Agency"] = sel.agency
                   /\ df.rows[j].cells["Lead_Officer"] = officer_options[i].value

\* an agency is selected, an officer is offered for it, and the dataset has
\* an officer of another agency who is not offered
C4_Witness ==
    /\ phase = "serving"
    /\ sel.agency \notin {ALL, None}
    /\ Len(officer_options) >= 2
    /\ "Lead_Officer" \in df.columns
    /\ \E j \in DOMAIN df.rows :
          \A i \in DOMAIN officer_options :
              officer_options[i].value # df.rows[j].cells["Lead_Officer"]

\* a selection names a value that no record of the dataset has
SelectsAbsentValue ==
    \/ \E f \in TextFields :
          /\ sel[f] # ALL
          /\ FieldColumn[f] \in df.columns
          /\ \A j \in DOMAIN df.rows : df.rows[j].cells[FieldColumn[f]] # sel[f]
    \/ /\ sel.f790 \in {YES, NO}
       /\ "Is_790_07" \in df.columns
       /\ \A j \in DOMAIN df.rows : df.rows[j].cells["Is_790_07"] # bool(sel.f790 = YES)

NoDataTitles ==
    {"Officer Performance (No data)", "Officer Performance (No data available)",
     "Statute Distribution (No data)", "Statute Distribution (No data available)",
     "Demographics (No data)", "Demographics (No data available)",
     "790.07 Analysis (No 790.07 cases found)", "790.07 Analysis (No data available)",
     "Case Types (No data)", "Case Types (No data available)",
     "Timeline (No data)", "Timeline (No data available)",
     "Agencies (No data)", "Agencies (No data available)"}

IsNoData(fig) == fig.data = <<>> /\ fig.title \in NoDataTitles

Figures(o) ==
    {o.officer_fig, o.statute_fig, o.demographics_fig, o.analysis_fig,
     o.case_type_fig, o.timeline_fig, o.agency_fig}

\* C5: a selected value that occurs on no record gives an empty filtered
\* set without an exception, and every output is then a 'no data' result
C5_AbsentValueIsNoData ==
    (phase = "serving" /\ SelectsAbsentValue)
    => /\ ~out.raised
       /\ out.filtered_df.rows = <<>>
       /\ \A fig \in Figures(out) : IsNoData(fig)
       /\ out.secondary_data = <<>>
       /\ out.secondary_columns = <<>>
       /\ out.table_data = NoTableData

\* the agency selected occurs on no record of a dataset that has records
C5_Witness ==
    /\ Serving
    /\ sel.agency = OPD
    /\ "Lead_Agency" \in df.columns
    /\ Len(df.rows) >= 1
    /\ \A j \in DOMAIN df.rows : df.rows[j].cells["Lead_Agency"] # OPD
    /\ out.filtered_df.rows = <<>>

\* the top-N views: the figure, its field and its n
TopViews(o) ==
    {[fig |-> o.officer_fig, field |-> "Lead_Officer", n |-> TopOfficers],
     [fig |-> o.statute_fig, field |-> "Statute_Description", n |-> TopStatutes],
     [fig |-> o.agency_fig, field |-> "Lead_Agency", n |-> TopAgencies]}

ViewSum(fig) == SumSeq([i \in DOMAIN fig.data |-> fig.data[i].count])

NonNull(frame, field) ==
    IF field \in frame.columns
    THEN Cardinality({i \in DOMAIN frame.rows : frame.rows[i].cells[field] # NaN})
    ELSE 0

Distinct(frame, field) ==
    IF field \in frame.columns
    THEN Cardinality({frame.rows[i].cells[field] : i \in DOMAIN frame.rows} \ {NaN})
    ELSE 0

\* C6 as stated: the counts of each top-N view sum to the number of
\* non-null values of its field in the filtered set
C6_SumIsNonNullCount ==
    Serving => \A v \in TopViews(out) :
                  ViewSum(v.fig) = NonNull(out.filtered_df, v.field)

\* C6 amended: the counts sum to the number of non-null values when the
\* field has at most n distinct values in the filtered set; with more, the
\* view holds n entries and its counts sum to less
C6_SumIsNonNullCountUpToN ==
    Serving => \A v \in TopViews(out) :
        IF Distinct(out.filtered_df, v.field) <= v.n
        THEN ViewSum(v.fig) = NonNull(out.filtered_df, v.field)
        ELSE /\ Len(v.fig.data) = v.n
             /\ ViewSum(v.fig) < NonNull(out.filtered_df, v.field)

\* the filtered set has more distinct officers than the officer view shows
C6_Witness ==
    /\ Serving
    /\ Distinct(out.filtered_df, "Lead_Officer") > TopOfficers
    /\ out.officer_fig.data # <<>>

\* C7: a selection other than 'all' on a field whose column the dataset
\* lacks changes nothing: the filtered set is the one computed with that
\* selection at 'all', and no exception is raised
C7_AbsentColumnIsNoOp ==
    phase = "serving" =>
        \A f \in AllFields :
            (FieldColumn[f] \notin df.columns /\ sel[f] # ALL)
            => /\ ~out.raised
               /\ out.filtered_df =
                      update_dashboard(df, [sel EXCEPT ![f] = ALL]).filtered_df

\* a gender is selected on a dataset without the Gender column, and records
\* are shown
C7_Witness ==
    /\ Serving
    /\ "Gender" \notin df.columns
    /\ sel.gender # ALL
    /\ Len(out.filtered_df.rows) >= 1

\* a dataset with every column of the file and no record
EmptyFrame ==
    LET full == load_data(csv_file(CsvColumns, BaseRows))
    IN  boolean_index(full, [i \in DOMAIN full.rows |-> FALSE])

\* C8 as stated: a view computed without its field differs from the view
\* computed with the field over zero records
C8_MissingDiffersFromEmpty ==
    Serving =>
        /\ "Lead_Officer" \notin df.columns
               => out.officer_fig # officer_chart(EmptyFrame)
        /\ "Statute_Description" \notin df.columns
               => out.statute_fig # statute_chart(EmptyFrame)
        /\ "YearMonth" \notin df.columns
               => out.timeline_fig # timeline_chart(EmptyFrame)
        /\ "Lead_Agency" \notin df.columns
               => out.agency_fig # agency_chart(EmptyFrame)
        /\ "Statute_CaseType" \notin df.columns
               => out.case_type_fig # case_type_chart(EmptyFrame)
        /\ ({"Race_Tier_1", "Gender"} \ df.columns) # {}
               => out.demographics_fig # demographics_chart(EmptyFrame)

\* C9: the module-level dataset stays what load_data returned, whatever
\* callbacks have run
C9_DatasetUnchanged ==
    phase # "start" => df = load_data(csv)

\* callbacks have run with selections that keep only part of the dataset,
\* under an agency that narrows the officer list
C9_Witness ==
    /\ Serving
    /\ sel.agency \notin {ALL, None}
    /\ Len(out.filtered_df.rows) >= 1
    /\ Len(out.filtered_df.rows) < Len(df.rows)
    /\ Len(officer_options) >= 2

\* the header names of the file as load_data cleans them
CleanedColumns == {str_replace_bom(c) : c \in csv.columns}

\* C10 as stated: a file that is read and has rows is what load_data
\* returns, with at most a derived field left out
C10_LoadKeepsFile ==
    (phase # "start" /\ csv.kind = "ok" /\ Len(csv.rows) > 0)
    => /\ Len(df.rows) = Len(csv.rows)
       /\ CleanedColumns \subseteq df.columns
       /\ df.columns \subseteq CleanedColumns \cup {"Officer_Case_Count", "Is_790_07"}

\* s contains the characters of pat, one after the other, each as written
contains_literal(s, pat) ==
    \E i \in 1..(Len(s) - Len(pat) + 1) : SubSeq(s, i, i + Len(pat) - 1) = pat

\* C11 as stated: on every record the flag Is_790_07 is true exactly when
\* the Statute value contains the literal characters '790.07', and false
\* when the Statute value is null
C11_FlagIsLiteralContainment ==
    (phase # "start" /\ {"Statute", "Is_790_07"} \subseteq df.columns)
    => \A i \in DOMAIN df.rows :
          df.rows[i].cells["Is_790_07"] =
              bool(/\ df.rows[i].cells["Statute"] # NaN
                   /\ contains_literal(df.rows[i].cells["Statute"], Pattern_790_07))

\* the number of records of frame whose field is v
CountIn(frame, field, v) ==
    Cardinality({i \in DOMAIN frame.rows : frame.rows[i].cells[field] = v})

\* the position in frame of the first record whose field is v
FirstAt(frame, field, v) ==
    CHOOSE i \in DOMAIN frame.rows :
        /\ frame.rows[i].cells[field] = v
        /\ \A j \in 1..(i - 1) : frame.rows[j].cells[field] # v

\* the entries d are the min(n, distinct) most frequent values of field in
\* frame, each once with its count, largest count first
IsTopN(d, frame, field, n) ==
    /\ Len(d) <= n
    /\ Len(d) = IF Distinct(frame, field) < n THEN Distinct(frame, field) ELSE n
    /\ \A i \in DOMAIN d :
          /\ d[i].value # NaN
          /\ d[i].count = CountIn(frame, field, d[i].value)
          /\ d[i].count >= 1
    /\ \A i \in DOMAIN d : \A j \in DOMAIN d :
          i < j => d[i].value # d[j].value /\ d[i].count >= d[j].count
    /\ \A k \in DOMAIN frame.rows :
          LET v == frame.rows[k].cells[field]
          IN  (v # NaN /\ \A i \in DOMAIN d : d[i].value # v)
              => \A i \in DOMAIN d : d[i].count >= CountIn(frame, field, v)

\* entries of d with equal counts stand in the order in which their values
\* first occur in frame
TiesByFirstOccurrence(d, frame, field) ==
    \A i \in DOMAIN d : \A j \in DOMAIN d :
        (i < j /\ d[i].count = d[j].count)
        => FirstAt(frame, field, d[i].value) < FirstAt(frame, field, d[j].value)

\* C12 as stated: each top-N view (officers 15, statutes 10, agencies 10)
\* has at most n entries, sorted by count descending, holding the n highest
\* counts of the filtered set, with equal counts ordered by the first
\* occurrence of their values in the filtered set
C12_TopNByCountThenFirstSeen ==
    Serving => \A v \in TopViews(out) :
        v.fig.data # <<>>
        => /\ IsTopN(v.fig.data, out.filtered_df, v.field, v.n)
           /\ TiesByFirstOccurrence(v.fig.data, out.filtered_df, v.field)

\* the YearMonth values that occur on the records of frame
MonthsOf(frame) ==
    IF "YearMonth" \in frame.columns
    THEN {frame.rows[i].cells["YearMonth"] : i \in DOMAIN frame.rows} \ {NaN}
    ELSE {}

\* C13: the timeline view has exactly one entry for each YearMonth value
\* that occurs in the filtered set and none for any other month, in
\* ascending order of YearMonth, each with the number of records of that
\* month, the counts summing to the number of filtered records that have a
\* YearMonth
C13_TimelineIsMonthCounts ==
    Serving =>
        LET d == out.timeline_fig.data
            f == out.filtered_df
        IN  /\ {d[i].key : i \in DOMAIN d} = MonthsOf(f)
            /\ Len(d) = Cardinality(MonthsOf(f))
            /\ \A i \in DOMAIN d :
                  /\ d[i].count = CountIn(f, "YearMonth", d[i].key)
                  /\ d[i].count >= 1
            /\ \A i \in DOMAIN d : \A j \in DOMAIN d :
                  i < j => rank(d[i].key) < rank(d[j].key)
            /\ ViewSum(out.timeline_fig) = NonNull(f, "YearMonth")

\* the filtered set has a record of March before one of January, none of
\* February, and a record without YearMonth
C13_Witness ==
    /\ Serving
    /\ MonthsOf(out.filtered_df) = {<<"2024-01">>, <<"2024-03">>}
    /\ FirstAt(out.filtered_df, "YearMonth", <<"2024-03">>)
           < FirstAt(out.filtered_df, "YearMonth", <<"2024-01">>)
    /\ NonNull(out.filtered_df, "YearMonth") < Len(out.filtered_df.rows)
    /\ Len(out.timeline_fig.data) = 2

\* the positions in frame of the flagged records of case number c
FlaggedOf(frame, c) ==
    {i \in DOMAIN frame.rows :
        /\ frame.rows[i].cells["Is_790_07"] = True
        /\ frame.rows[i].cells["CaseNumber"] = c}

\* the case numbers of the flagged records of frame
FlaggedCases(frame) ==
    {frame.rows[i].cells["CaseNumber"] :
        i \in {k \in DOMAIN frame.rows : frame.rows[k].cells["Is_790_07"] = True}}
    \ {NaN}

\* the distinct values of field on the records at positions at, each once,
\* in the order in which they first occur
DistinctFirstSeen(frame, at, field) ==
    LET vals == {frame.rows[i].cells[field] : i \in at}
        firstOf(v) == CHOOSE i \in at :
                          /\ frame.rows[i].cells[field] = v
                          /\ \A j \in at : frame.rows[j].cells[field] = v => i <= j
    IN  [k \in 1..Cardinality(vals) |->
            CHOOSE v \in vals :
                Cardinality({w \in vals : firstOf(w) < firstOf(v)}) = k - 1]

\* row of the table is the row of case number row.CaseNumber: its charge and
\* statute descriptions are the distinct ones of the case's flagged records,
\* in first-seen order, joined with ', '
IsCaseRow(row, frame) ==
    LET at == FlaggedOf(frame, row.CaseNumber)
    IN  /\ at # {}
        /\ row.ChargeOffenseDescription =
               join(CommaSpace, DistinctFirstSeen(frame, at, "ChargeOffenseDescription"))
        /\ row.Statute_Description =
               join(CommaSpace, DistinctFirstSeen(frame, at, "Statute_Description"))

\* the dataset has the flag and every column the table reads
HasSecondaryColumns ==
    SecondaryAggColumns \cup {"Is_790_07"} \subseteq df.columns

C15_OfficerIsOffered ==
    phase = "serving" => sel.officer = ALL \/ sel.officer \in offered

\* the agency selections under which update_officer_dropdown offers the
\* officers of every agency: 'all', and the empty values that 'not
\* selected_agency' accepts
UnconstrainedForOfficers == {ALL, None, EmptyStr}

\* C16 as stated: under every agency selection that update_officer_dropdown
\* treats as unconstrained, update_dashboard restricts the filtered set by
\* the other selections only
C16_UnconstrainedAgencyAgrees ==
    (Serving /\ sel.agency \in UnconstrainedForOfficers)
    => /\ officer_options = update_officer_dropdown(df, ALL)
       /\ IsFilteredView(out.filtered_df, df, [sel EXCEPT !.agency = ALL],
                         AllFields \ {"agency"})

====
